---- MODULE Spec2Model ----
(***************************************************************************)
(* Model of tools/context_pack.py: one run of main(), from the parsed      *)
(* command line to the return of the exit code.                            *)
(*                                                                         *)
(* Text is a sequence of code points, bytes are sequences of 0..255, a     *)
(* path is the sequence of its components (an absolute path starts with    *)
(* the component "/"), and a short string such as a branch name is a       *)
(* sequence of string tokens.  An optional value (Python's None or a str)  *)
(* is a record [some, v].                                                  *)
(*                                                                         *)
(* main() returns an exit code; an exception escaping main() (a file that  *)
(* cannot be opened, a closed output pipe) is outside this model.          *)
(***************************************************************************)
EXTENDS Integers, Sequences, FiniteSets, TLC

\* Bound of the model: the longest argument list tried.
MaxArgs == 2

DEFAULT_MAX_FILES == 5
DEFAULT_MAX_BYTES == 800000

VARIABLES
  files, max_files, max_bytes, no_git, fence,   \* ns: the parsed arguments
  fs,                                           \* the file system
  pc,                                           \* position in main()
  repo_root, repo_name, branch, commit,         \* lines 57-68
  entries, total_bytes,                         \* lines 72-73
  idx,                                          \* position of the for loops
  p, content, digest, display_path,             \* locals of the loading loop
  stdout, stderr,                               \* what was printed, per print
  returned,                                     \* <<>> or <<exit code>>
  events                                        \* external calls, in order

config == <<files, max_files, max_bytes, no_git, fence, fs>>
gitvars == <<repo_root, repo_name, branch, commit>>
loopvars == <<p, content, digest, display_path>>
vars == <<files, max_files, max_bytes, no_git, fence, fs, pc, repo_root,
          repo_name, branch, commit, entries, total_bytes, idx, p, content,
          digest, display_path, stdout, stderr, returned, events>>

----------------------------------------------------------------------------
(* Optional values and truthiness *)

None == [some |-> FALSE, v |-> <<>>]
Some(x) == [some |-> TRUE, v |-> x]
\* Python's `if x:` for x of type str | None
Truthy(o) == o.some /\ o.v # <<>>

----------------------------------------------------------------------------
(* Text: decoding, encoding, stripping, hashing *)

LF == 10
CR == 13
REPLACEMENT == 65533

IsCont(b) == b >= 128 /\ b <= 191
IsLead2(b) == b >= 194 /\ b <= 223

\* bytes.decode("utf-8", errors="replace") on sequences whose bytes are
\* ASCII, two-byte sequences, or invalid: every byte that starts no valid
\* sequence becomes U+FFFD.
RECURSIVE Utf8Decode(_)
Utf8Decode(bs) ==
  IF bs = <<>> THEN <<>>
  ELSE IF bs[1] < 128 THEN <<bs[1]>> \o Utf8Decode(Tail(bs))
  ELSE IF IsLead2(bs[1]) /\ Len(bs) >= 2 /\ IsCont(bs[2])
       THEN <<(bs[1] - 192) * 64 + (bs[2] - 128)>> \o Utf8Decode(Tail(Tail(bs)))
  ELSE <<REPLACEMENT>> \o Utf8Decode(Tail(bs))

\* Text mode with newline=None: "\r\n" and "\r" are read as "\n".
RECURSIVE UniversalNewlines(_)
UniversalNewlines(s) ==
  IF s = <<>> THEN <<>>
  ELSE IF s[1] = CR /\ Len(s) >= 2 /\ s[2] = LF
       THEN <<LF>> \o UniversalNewlines(Tail(Tail(s)))
  ELSE IF s[1] = CR THEN <<LF>> \o UniversalNewlines(Tail(s))
  ELSE <<s[1]>> \o UniversalNewlines(Tail(s))

read_text_file(bytes) == UniversalNewlines(Utf8Decode(bytes))

IsSurrogate(c) == c >= 55296 /\ c <= 57343

\* str.encode("utf-8", errors="replace") of one code point below U+10000
EncodeChar(c) ==
  IF c < 128 THEN <<c>>
  ELSE IF c < 2048 THEN <<192 + (c \div 64), 128 + (c % 64)>>
  ELSE IF IsSurrogate(c) THEN <<63>>
  ELSE <<224 + (c \div 4096), 128 + ((c \div 64) % 64), 128 + (c % 64)>>

RECURSIVE Utf8Encode(_)
Utf8Encode(s) ==
  IF s = <<>> THEN <<>> ELSE EncodeChar(s[1]) \o Utf8Encode(Tail(s))

HexDigits == <<"0", "1", "2", "3", "4", "5", "6", "7",
               "8", "9", "a", "b", "c", "d", "e", "f">>

RECURSIVE HexOf(_)
HexOf(bs) ==
  IF bs = <<>> THEN <<>>
  ELSE <<HexDigits[(bs[1] \div 16) + 1], HexDigits[(bs[1] % 16) + 1]>>
       \o HexOf(Tail(bs))

\* SHA-256 is taken to be collision free: the digest of a message is
\* modelled by the lowercase hex rendering of the message itself, so two
\* digests are equal exactly when the hashed byte strings are.
sha256_text(s) == HexOf(Utf8Encode(s))

\* content.rstrip("\n")
RECURSIVE RstripNewlines(_)
RstripNewlines(s) ==
  IF s # <<>> /\ s[Len(s)] = LF
  THEN RstripNewlines(SubSeq(s, 1, Len(s) - 1))
  ELSE s

\* out.decode(...).strip() of run_git: the tokens "\n" and " " are whitespace
IsSpace(t) == t \in {"\n", " "}

RECURSIVE Strip(_)
Strip(s) ==
  IF s # <<>> /\ IsSpace(s[1]) THEN Strip(Tail(s))
  ELSE IF s # <<>> /\ IsSpace(s[Len(s)]) THEN Strip(SubSeq(s, 1, Len(s) - 1))
  ELSE s

\* run_git: the stripped output, or None when the subprocess raised
run_git(outcome) == IF outcome.ok THEN Some(Strip(outcome.out)) ELSE None

----------------------------------------------------------------------------
(* Paths and the file system *)

\* The working directory of the run; the work tree git may report is /r.
Cwd == <<"/", "r", "s">>
WorkTree == <<"/", "r">>

\* Path.is_absolute
IsAbsolute(path) == path # <<>> /\ path[1] = "/"

\* What the operating system (and Path.resolve) makes of "..": the parent,
\* the root being its own parent.  There are no symbolic links.
RECURSIVE NormalizeFrom(_, _)
NormalizeFrom(acc, rest) ==
  IF rest = <<>> THEN acc
  ELSE IF rest[1] = ".."
       THEN NormalizeFrom(IF Len(acc) > 1 THEN SubSeq(acc, 1, Len(acc) - 1) ELSE acc,
                          Tail(rest))
  ELSE NormalizeFrom(Append(acc, rest[1]), Tail(rest))

Resolve(path) == NormalizeFrom(<<>>, path)

\* Path.name: the last component, empty for the root directory
Name(path) == IF Len(path) <= 1 THEN <<>> ELSE <<path[Len(path)]>>

\* lines 76-81: a relative argument is taken under the repository root when
\* one is known, under the working directory otherwise
ResolveArg(raw, root) ==
  IF IsAbsolute(raw) THEN raw
  ELSE IF Truthy(root) THEN root.v \o raw
  ELSE Cwd \o raw

IsPrefix(a, b) == Len(a) <= Len(b) /\ SubSeq(b, 1, Len(a)) = a

\* lines 90-95: relative to the repository root when the file lies under it
\* (relative_to raises otherwise), else the path as resolved on line 76-81
DisplayPath(path, root) ==
  IF Truthy(root) /\ IsPrefix(Resolve(root.v), Resolve(path))
  THEN SubSeq(Resolve(path), Len(Resolve(root.v)) + 1, Len(Resolve(path)))
  ELSE path

Missing == [kind |-> "missing", bytes |-> <<>>]
Directory == [kind |-> "dir", bytes |-> <<>>]
RegularFile(bytes) == [kind |-> "file", bytes |-> bytes]

\* What is found at a path
Stat(fsys, path) ==
  IF Resolve(path) \in DOMAIN fsys THEN fsys[Resolve(path)] ELSE Missing

Exists(obj) == obj.kind # "missing"
IsFile(obj) == obj.kind = "file"

\* line 83
NotAFile(obj) == ~Exists(obj) \/ ~IsFile(obj)

\* Mutant of TooMany: the limit itself is refused
TooMany_AtLimit(n, limit) == n >= limit

\* line 53
TooMany(n, limit) == n > limit

\* Mutant of OverBudget: a total equal to the limit is refused
OverBudget_AtLimit(total, limit) == total >= limit

\* line 98
OverBudget(total, limit) == total > limit

\* line 97: the size a content adds to the running total
EncodedSize(s) == Len(Utf8Encode(s))

----------------------------------------------------------------------------
(* What is printed *)

Line(k) == [k |-> k, s |-> <<>>, t |-> <<>>]
StrLine(k, s) == [k |-> k, s |-> s, t |-> <<>>]
TextLine(k, t) == [k |-> k, s |-> <<>>, t |-> t]

ErrTooMany(n, limit) ==
  [msg |-> "ERROR: Too many files", path |-> <<>>, nums |-> <<n, limit>>]
ErrNotAFile(raw) ==
  [msg |-> "ERROR: Not a file or missing", path |-> raw, nums |-> <<>>]
ErrTooLarge(limit) ==
  [msg |-> "ERROR: Context pack too large", path |-> <<>>, nums |-> <<limit>>]

\* lines 108-109; <fence> stands for the three backticks
FenceOpen(f) == IF f THEN <<Line("<fence>text")>> ELSE <<>>

\* Mutant of FenceClose: the closing fence is forgotten
FenceClose_Forgotten(f) == <<>>

\* lines 136-137
FenceClose(f) == IF f THEN <<Line("<fence>")>> ELSE <<>>

\* Mutant of OptLine: the test is `is not None`, so an empty value is printed
OptLine_NotNone(k, o) == IF o.some THEN <<StrLine(k, o.v)>> ELSE <<>>

\* lines 113-120: a header field is printed when its value is truthy
OptLine(k, o) == IF Truthy(o) THEN <<StrLine(k, o.v)>> ELSE <<>>

\* lines 111-122
Header(root, name, br, cm, n) ==
  <<Line("BEGIN_CONTEXT_PACK"), StrLine("generated_utc", <<"now">>)>>
  \o OptLine("repo_root", root)
  \o OptLine("repo_name", name)
  \o OptLine("git_branch", br)
  \o OptLine("git_commit", cm)
  \o <<TextLine("file_count", <<n>>), Line("")>>

\* lines 125-132
FileRecord(e) ==
  <<Line("BEGIN_FILE"),
    StrLine("path", e.display_path),
    StrLine("sha256", e.digest),
    Line("CONTENT_START"),
    TextLine("content", RstripNewlines(e.content)),
    Line("CONTENT_END"),
    Line("END_FILE"),
    Line("")>>

\* Mutant of AppendEntry: the entry is put first
AppendEntry_First(es, e) == <<e>> \o es

\* line 106
AppendEntry(es, e) == Append(es, e)

GitEvent(args) == [op |-> "git", arg |-> args]
StatEvent(path) == [op |-> "stat", arg |-> path]
ReadEvent(path) == [op |-> "read", arg |-> path]

ShowToplevel == <<"rev-parse", "--show-toplevel">>
AbbrevRefHead == <<"rev-parse", "--abbrev-ref", "HEAD">>
RevParseHead == <<"rev-parse", "HEAD">>

----------------------------------------------------------------------------
(* The inputs *)

\* The arguments tried: a relative path, and two absolute ones
RawPaths == { <<"a">>, <<"/", "r", "s", "a">>, <<"/", "r", "s", "..", "a">> }

\* The places those arguments can name
Locations == { <<"/", "r", "a">>, <<"/", "r", "s", "a">> }

\* File contents on disk: empty; "a\r\n"; e-acute followed by an invalid byte
DiskContents == { <<>>, <<97, 13, 10>>, <<195, 169, 255>> }

FileObjects == {Missing, Directory} \cup {RegularFile(b) : b \in DiskContents}

ArgLists == UNION {[1..n -> RawPaths] : n \in 1..MaxArgs}

MaxFilesValues == (0..MaxArgs) \cup {DEFAULT_MAX_FILES}
MaxBytesValues == {-1, 0, 2, 5, 7, DEFAULT_MAX_BYTES}

Fail == [ok |-> FALSE, out |-> <<>>]
Ok(out) == [ok |-> TRUE, out |-> out]

\* The outcomes of the three git commands: a failure (no git, no work tree),
\* or an output
ToplevelOutcomes == {Fail, Ok(<<"\n">>), Ok(WorkTree \o <<"\n">>)}
BranchOutcomes == {Fail, Ok(<<"\n">>), Ok(<<"main", "\n">>)}
CommitOutcomes == {Fail, Ok(<<"c0ffee", "\n">>)}

----------------------------------------------------------------------------
(* The loading loop as a function of its inputs *)

\* lines 75-106: the exit code the loop ends with (0: every file accepted),
\* from the arguments not yet loaded and the running total
RECURSIVE LoadExit(_, _, _, _, _)
LoadExit(fsys, args, root, limit, total) ==
  IF args = <<>> THEN 0
  ELSE IF NotAFile(Stat(fsys, ResolveArg(args[1], root))) THEN 2
  ELSE IF OverBudget(
            total + EncodedSize(read_text_file(
                      Stat(fsys, ResolveArg(args[1], root)).bytes)),
            limit) THEN 2
  ELSE LoadExit(fsys, Tail(args), root, limit,
                total + EncodedSize(read_text_file(
                          Stat(fsys, ResolveArg(args[1], root)).bytes)))

----------------------------------------------------------------------------
(* main() *)

\* lines 45-51 (the parsed arguments) and the state at entry of main
Init ==
  /\ files \in ArgLists
  /\ max_files \in MaxFilesValues
  /\ max_bytes \in MaxBytesValues
  /\ no_git \in BOOLEAN
  /\ fence \in BOOLEAN
  /\ fs \in [Locations -> FileObjects]
  /\ pc = "count"
  /\ repo_root = None /\ repo_name = None /\ branch = None /\ commit = None
  /\ entries = <<>>
  /\ total_bytes = 0
  /\ idx = 1
  /\ p = <<>> /\ content = <<>> /\ digest = <<>> /\ display_path = <<>>
  /\ stdout = <<>>
  /\ stderr = <<>>
  /\ returned = <<>>
  /\ events = <<>>

\* lines 53-55
TooManyFiles ==
  /\ pc = "count"
  /\ TooMany(Len(files), max_files)
  /\ stderr' = Append(stderr, ErrTooMany(Len(files), max_files))
  /\ returned' = <<2>>
  /\ pc' = "done"
  /\ UNCHANGED <<config, gitvars, entries, total_bytes, idx, loopvars,
                 stdout, events>>

\* Mutant of CountOk: the opening fence is printed before the files are loaded
CountOk_FenceFirst ==
  /\ pc = "count"
  /\ ~TooMany(Len(files), max_files)
  /\ pc' = "git"
  /\ stdout' = stdout \o FenceOpen(fence)
  /\ repo_root' = None /\ repo_name' = None /\ branch' = None /\ commit' = None
  /\ UNCHANGED <<config, entries, total_bytes, idx, loopvars, stderr,
                 returned, events>>

\* line 53, the condition false; lines 57-60
CountOk ==
  /\ pc = "count"
  /\ ~TooMany(Len(files), max_files)
  /\ pc' = "git"
  /\ repo_root' = None /\ repo_name' = None /\ branch' = None /\ commit' = None
  /\ UNCHANGED <<config, entries, total_bytes, idx, loopvars, stdout, stderr,
                 returned, events>>

\* line 62, --no-git given; lines 70-73
SkipGit ==
  /\ pc = "git"
  /\ no_git
  /\ pc' = "load"
  /\ entries' = <<>> /\ total_bytes' = 0 /\ idx' = 1
  /\ UNCHANGED <<config, gitvars, loopvars, stdout, stderr, returned, events>>

\* lines 62-64; lines 70-73
ProbeRoot ==
  /\ pc = "git"
  /\ ~no_git
  /\ \E o \in ToplevelOutcomes :
       /\ repo_root' = run_git(o)
       /\ pc' = IF Truthy(run_git(o)) THEN "head" ELSE "load"
  /\ events' = Append(events, GitEvent(ShowToplevel))
  /\ entries' = <<>> /\ total_bytes' = 0 /\ idx' = 1
  /\ UNCHANGED <<config, repo_name, branch, commit, loopvars, stdout, stderr,
                 returned>>

\* lines 65-68
ProbeHead ==
  /\ pc = "head"
  /\ repo_name' = Some(Name(repo_root.v))
  /\ \E ob \in BranchOutcomes : branch' = run_git(ob)
  /\ \E oc \in CommitOutcomes : commit' = run_git(oc)
  /\ events' = events \o <<GitEvent(AbbrevRefHead), GitEvent(RevParseHead)>>
  /\ pc' = "load"
  /\ UNCHANGED <<config, repo_root, entries, total_bytes, idx, loopvars,
                 stdout, stderr, returned>>

\* Mutant of LoadCheck: the diagnostic names the resolved path
LoadCheck_NamesResolved ==
  /\ pc = "load"
  /\ idx <= Len(files)
  /\ p' = ResolveArg(files[idx], repo_root)
  /\ events' = Append(events, StatEvent(ResolveArg(files[idx], repo_root)))
  /\ IF NotAFile(Stat(fs, ResolveArg(files[idx], repo_root)))
     THEN /\ stderr' = Append(stderr,
                          ErrNotAFile(ResolveArg(files[idx], repo_root)))
          /\ returned' = <<2>>
          /\ pc' = "done"
     ELSE /\ pc' = "read"
          /\ UNCHANGED <<stderr, returned>>
  /\ UNCHANGED <<config, gitvars, entries, total_bytes, idx, content, digest,
                 display_path, stdout>>

\* Mutant of LoadCheck: after the diagnostic the loop goes on to the next
\* argument instead of returning
LoadCheck_GoesOn ==
  /\ pc = "load"
  /\ idx <= Len(files)
  /\ p' = ResolveArg(files[idx], repo_root)
  /\ events' = Append(events, StatEvent(ResolveArg(files[idx], repo_root)))
  /\ IF NotAFile(Stat(fs, ResolveArg(files[idx], repo_root)))
     THEN /\ stderr' = Append(stderr, ErrNotAFile(files[idx]))
          /\ idx' = IF idx = Len(files) THEN 1 ELSE idx + 1
          /\ pc' = IF idx = Len(files) THEN "emit" ELSE "load"
     ELSE /\ pc' = "read"
          /\ UNCHANGED <<stderr, idx>>
  /\ UNCHANGED <<config, gitvars, entries, total_bytes, content, digest,
                 display_path, stdout, returned>>

\* lines 75-85: the next argument is resolved and looked up
LoadCheck ==
  /\ pc = "load"
  /\ idx <= Len(files)
  /\ p' = ResolveArg(files[idx], repo_root)
  /\ events' = Append(events, StatEvent(ResolveArg(files[idx], repo_root)))
  /\ IF NotAFile(Stat(fs, ResolveArg(files[idx], repo_root)))
     THEN /\ stderr' = Append(stderr, ErrNotAFile(files[idx]))
          /\ returned' = <<2>>
          /\ pc' = "done"
     ELSE /\ pc' = "read"
          /\ UNCHANGED <<stderr, returned>>
  /\ UNCHANGED <<config, gitvars, entries, total_bytes, idx, content, digest,
                 display_path, stdout>>

\* lines 87-95
LoadRead ==
  /\ pc = "read"
  /\ content' = read_text_file(Stat(fs, p).bytes)
  /\ digest' = sha256_text(read_text_file(Stat(fs, p).bytes))
  /\ display_path' = DisplayPath(p, repo_root)
  /\ events' = Append(events, ReadEvent(p))
  /\ pc' = "account"
  /\ UNCHANGED <<config, gitvars, entries, total_bytes, idx, p, stdout,
                 stderr, returned>>

\* Mutant of LoadAccount: the total is assigned, not accumulated
LoadAccount_LastSizeOnly ==
  /\ pc = "account"
  /\ total_bytes' = EncodedSize(content)
  /\ IF OverBudget(EncodedSize(content), max_bytes)
     THEN /\ stderr' = Append(stderr, ErrTooLarge(max_bytes))
          /\ returned' = <<2>>
          /\ pc' = "done"
          /\ UNCHANGED <<entries, idx>>
     ELSE /\ entries' = AppendEntry(entries,
                          [display_path |-> display_path, digest |-> digest,
                           content |-> content])
          /\ idx' = IF idx = Len(files) THEN 1 ELSE idx + 1
          /\ pc' = IF idx = Len(files) THEN "emit" ELSE "load"
          /\ UNCHANGED <<stderr, returned>>
  /\ UNCHANGED <<config, gitvars, loopvars, stdout, events>>

\* lines 97-106, and the end of the loop on line 75
LoadAccount ==
  /\ pc = "account"
  /\ total_bytes' = total_bytes + EncodedSize(content)
  /\ IF OverBudget(total_bytes + EncodedSize(content), max_bytes)
     THEN /\ stderr' = Append(stderr, ErrTooLarge(max_bytes))
          /\ returned' = <<2>>
          /\ pc' = "done"
          /\ UNCHANGED <<entries, idx>>
     ELSE /\ entries' = AppendEntry(entries,
                          [display_path |-> display_path, digest |-> digest,
                           content |-> content])
          /\ idx' = IF idx = Len(files) THEN 1 ELSE idx + 1
          /\ pc' = IF idx = Len(files) THEN "emit" ELSE "load"
          /\ UNCHANGED <<stderr, returned>>
  /\ UNCHANGED <<config, gitvars, loopvars, stdout, events>>

\* lines 108-122
EmitHeader ==
  /\ pc = "emit"
  /\ stdout' = stdout \o FenceOpen(fence)
                 \o Header(repo_root, repo_name, branch, commit, Len(entries))
  /\ idx' = 1
  /\ pc' = IF entries = <<>> THEN "close" ELSE "file"
  /\ UNCHANGED <<config, gitvars, entries, total_bytes, loopvars, stderr,
                 returned, events>>

\* lines 124-132: one record
EmitFile ==
  /\ pc = "file"
  /\ stdout' = stdout \o FileRecord(entries[idx])
  /\ idx' = idx + 1
  /\ pc' = IF idx = Len(entries) THEN "close" ELSE "file"
  /\ UNCHANGED <<config, gitvars, entries, total_bytes, loopvars, stderr,
                 returned, events>>

\* lines 134-139
EmitClose ==
  /\ pc = "close"
  /\ stdout' = stdout \o <<Line("END_CONTEXT_PACK")>> \o FenceClose(fence)
  /\ returned' = <<0>>
  /\ pc' = "done"
  /\ UNCHANGED <<config, gitvars, entries, total_bytes, idx, loopvars, stderr,
                 events>>

Next ==
  \/ TooManyFiles
  \/ CountOk
  \/ SkipGit
  \/ ProbeRoot
  \/ ProbeHead
  \/ LoadCheck
  \/ LoadRead
  \/ LoadAccount
  \/ EmitHeader
  \/ EmitFile
  \/ EmitClose

Spec == Init /\ [][Next]_vars

----------------------------------------------------------------------------
(* Vocabulary of the properties *)

\* What the j-th argument names, once the probe is over
Target(j) == Stat(fs, ResolveArg(files[j], repo_root))
IsBad(j) == Target(j).kind # "file"
TextOf(j) == read_text_file(Target(j).bytes)

RECURSIVE SumTo(_)
\* The encoded size of the first j arguments' contents
SumTo(j) == IF j = 0 THEN 0 ELSE SumTo(j - 1) + Len(Utf8Encode(TextOf(j)))

RECURSIVE SizeOf(_)
\* The encoded size of a list of entries
SizeOf(es) ==
  IF es = <<>> THEN 0
  ELSE Len(Utf8Encode(es[1].content)) + SizeOf(Tail(es))

Exited(code) == pc = "done" /\ returned = <<code>>

Lines(k) == SelectSeq(stdout, LAMBDA l : l.k = k)

FileEvents == SelectSeq(events, LAMBDA e : e.op # "git")
GitEvents == SelectSeq(events, LAMBDA e : e.op = "git")

Said(msg) == \E n \in DOMAIN stderr : stderr[n].msg = msg
SaidTooMany == Said("ERROR: Too many files")
SaidNotAFile == Said("ERROR: Not a file or missing")
SaidTooLarge == Said("ERROR: Context pack too large")

Loading == pc \in {"load", "read", "account"}
Emitting == pc \in {"emit", "file", "close"}

----------------------------------------------------------------------------
(* C1 *)

\* C1: a run that ends with exit code 2 has written nothing to standard
\* output, and standard output is first written only after every requested
\* file has been loaded and accepted (one entry per argument, no diagnostic).
C1_NoPartialPack ==
  /\ returned = <<2>> => stdout = <<>>
  /\ stdout # <<>> =>
       /\ Len(entries) = Len(files)
       /\ stderr = <<>>
       /\ Len(FileEvents) = 2 * Len(files)
       /\ Emitting \/ Exited(0)

\* A fenced run that fails on its second file, the first one accepted
C1_Witness ==
  /\ Exited(2) /\ fence
  /\ Len(entries) = 1 /\ Len(files) = 2
  /\ stdout = <<>>

----------------------------------------------------------------------------
(* C2 *)

\* C2: in every emitted record, the digest recomputed from the text between
\* the CONTENT_START and CONTENT_END lines is the one on the sha256 line.
C2_DigestRoundTrip ==
  \A n \in DOMAIN stdout :
    stdout[n].k = "CONTENT_START" /\ n + 2 <= Len(stdout) =>
      /\ stdout[n + 1].k = "content"
      /\ stdout[n + 2].k = "CONTENT_END"
      /\ stdout[n - 1].k = "sha256"
      /\ sha256_text(stdout[n + 1].t) = stdout[n - 1].s

----------------------------------------------------------------------------
(* C5 *)

\* C5: with more arguments than --max-files the run exits with code 2 and
\* the too-many-files diagnostic, having made no external call (no git
\* command, no path looked up or read) and written nothing to standard
\* output; the count is the only thing checked there: with a count within
\* the limit, no run ends before a path has been looked up.
C5_CountCheckedFirst ==
  /\ Len(files) > max_files =>
       /\ pc \in {"count", "done"}
       /\ events = <<>>
       /\ stdout = <<>>
       /\ pc = "done" =>
            /\ returned = <<2>>
            /\ stderr = <<ErrTooMany(Len(files), max_files)>>
  /\ Len(files) <= max_files =>
       /\ ~SaidTooMany
       /\ pc = "done" => FileEvents # <<>>

\* Too many arguments, every one of them a missing path, git not disabled
C5_Witness ==
  /\ Exited(2) /\ SaidTooMany
  /\ ~no_git
  /\ \A j \in DOMAIN files : IsBad(j)

----------------------------------------------------------------------------
(* C8 *)

\* C8: a successful run's output starts with BEGIN_CONTEXT_PACK and ends
\* with END_CONTEXT_PACK, or, with --fence, starts with the text fence then
\* BEGIN_CONTEXT_PACK and ends with END_CONTEXT_PACK then the closing fence;
\* an opening fence is printed exactly when a closing one is.
C8_Framed ==
  Exited(0) =>
    /\ Len(stdout) >= 4
    /\ ~fence =>
         /\ stdout[1].k = "BEGIN_CONTEXT_PACK"
         /\ stdout[Len(stdout)].k = "END_CONTEXT_PACK"
    /\ fence =>
         /\ stdout[1].k = "<fence>text"
         /\ stdout[2].k = "BEGIN_CONTEXT_PACK"
         /\ stdout[Len(stdout) - 1].k = "END_CONTEXT_PACK"
         /\ stdout[Len(stdout)].k = "<fence>"
    /\ Len(Lines("<fence>text")) = Len(Lines("<fence>"))
    /\ Len(Lines("<fence>text")) = (IF fence THEN 1 ELSE 0)
    /\ Len(Lines("BEGIN_CONTEXT_PACK")) = 1
    /\ Len(Lines("END_CONTEXT_PACK")) = 1

\* A successful fenced run
C8_Witness == Exited(0) /\ fence /\ Len(files) = 2

----------------------------------------------------------------------------
(* C3 *)

BadArgs == {j \in DOMAIN files : IsBad(j)}
FirstBad == CHOOSE j \in BadArgs : \A k \in BadArgs : j <= k
NamesArg(j) ==
  \E n \in DOMAIN stderr :
    /\ stderr[n].msg = "ERROR: Not a file or missing"
    /\ stderr[n].path = files[j]

\* C3 as stated: whenever an argument is missing or not a regular file, the
\* run exits with code 2 and the diagnostic names that argument, whatever
\* its position and whatever the other arguments.
C3_EveryBadPathNamed ==
  pc = "done" =>
    \A j \in BadArgs : returned = <<2>> /\ NamesArg(j)

\* C3 amended: whenever an argument is missing or not a regular file, the
\* run exits with code 2; the one diagnostic names the first such argument,
\* as given, when the argument count is within --max-files and the files
\* before it fit the byte budget, and is otherwise the too-many-files or the
\* budget diagnostic, which names no path.
C3_FirstBadPathNamed ==
  pc = "done" /\ BadArgs # {} =>
    /\ returned = <<2>>
    /\ Len(stderr) = 1
    /\ IF Len(files) > max_files
       THEN stderr[1] = ErrTooMany(Len(files), max_files)
       ELSE IF \E k \in 1..(FirstBad - 1) : SumTo(k) > max_bytes
       THEN stderr[1] = ErrTooLarge(max_bytes)
       ELSE /\ NamesArg(FirstBad)
            /\ stderr[1].path = files[FirstBad]
            /\ idx = FirstBad

\* A relative argument, resolved under the repository root, is missing in
\* second position and is named as it was given
C3_Witness ==
  /\ Exited(2) /\ SaidNotAFile
  /\ Truthy(repo_root)
  /\ Len(files) = 2 /\ FirstBad = 2
  /\ ~IsAbsolute(files[2])
  /\ stderr[1].path = files[2]

----------------------------------------------------------------------------
(* C4 *)

\* C4 as stated: at every point of the loading loop the accepted entries'
\* encoded sizes sum to at most --max-bytes; a file that pushes the running
\* total above --max-bytes is not appended and the run fails there with exit
\* code 2; a lower --max-bytes never makes such a run succeed.
C4_BudgetAlways ==
  /\ Loading => SizeOf(entries) <= max_bytes
  /\ Loading =>
       /\ Len(entries) = idx - 1
       /\ SizeOf(entries) = SumTo(idx - 1)
  /\ Loading /\ pc # "account" => total_bytes = SumTo(idx - 1)
  /\ pc = "done" /\ SaidTooLarge =>
       /\ returned = <<2>>
       /\ SumTo(idx) > max_bytes
       /\ Len(entries) = idx - 1
       /\ \A b \in (-1)..(max_bytes - 1) :
            LoadExit(fs, files, repo_root, b, 0) = 2

\* C4 amended: at every point of the loading loop at which an entry has been
\* accepted, the accepted entries' encoded sizes, summed in input order, are
\* at most --max-bytes (with none accepted the sum is 0, which a negative
\* --max-bytes is below); a file that pushes the running total above
\* --max-bytes is not appended and the run fails there with exit code 2; a
\* lower --max-bytes never makes such a run succeed.
C4_BudgetOnceAccepted ==
  /\ entries # <<>> => SizeOf(entries) <= max_bytes
  /\ Loading =>
       /\ Len(entries) = idx - 1
       /\ SizeOf(entries) = SumTo(idx - 1)
       /\ \A k \in 1..(idx - 1) : SumTo(k) <= max_bytes
  /\ Loading /\ pc # "account" => total_bytes = SumTo(idx - 1)
  /\ pc = "done" /\ SaidTooLarge =>
       /\ returned = <<2>>
       /\ stdout = <<>>
       /\ SumTo(idx) > max_bytes
       /\ total_bytes = SumTo(idx)
       /\ Len(entries) = idx - 1
       /\ SizeOf(entries) <= max_bytes \/ entries = <<>>
       /\ \A b \in (-1)..(max_bytes - 1) :
            LoadExit(fs, files, repo_root, b, 0) = 2
  /\ pc = "done" /\ Len(files) <= max_files =>
       returned = <<LoadExit(fs, files, repo_root, max_bytes, 0)>>

\* The second file trips a budget that the first one fits
C4_Witness ==
  /\ Exited(2) /\ SaidTooLarge
  /\ idx = 2 /\ Len(entries) = 1
  /\ SizeOf(entries) > 0
  /\ max_bytes > 0

----------------------------------------------------------------------------
(* C6 *)

\* C6: on a successful run there is one entry and one emitted record per
\* argument, file_count prints that number, and the j-th record is the one
\* of the j-th argument (its display path, digest and content), duplicates
\* included.
C6_OneRecordPerArgument ==
  Exited(0) =>
    /\ Len(entries) = Len(files)
    /\ Lines("file_count") = <<TextLine("file_count", <<Len(files)>>)>>
    /\ Len(Lines("BEGIN_FILE")) = Len(files)
    /\ Len(Lines("END_FILE")) = Len(files)
    /\ Len(Lines("path")) = Len(files)
    /\ Len(Lines("sha256")) = Len(files)
    /\ Len(Lines("content")) = Len(files)
    /\ \A j \in DOMAIN files :
         /\ entries[j].content = TextOf(j)
         /\ entries[j].digest = HexOf(Utf8Encode(TextOf(j)))
         /\ entries[j].display_path =
              DisplayPath(ResolveArg(files[j], repo_root), repo_root)
         /\ Lines("path")[j].s = entries[j].display_path
         /\ Lines("sha256")[j].s = entries[j].digest
         /\ Lines("content")[j].t = RstripNewlines(entries[j].content)

\* Two arguments with different contents, emitted in the order given
C6_Witness ==
  /\ Exited(0) /\ Len(files) = 2
  /\ TextOf(1) # TextOf(2)
  /\ Lines("content")[1].t = RstripNewlines(TextOf(1))
  /\ Lines("content")[2].t = RstripNewlines(TextOf(2))

----------------------------------------------------------------------------
(* C7 *)

GitLines == {"repo_root", "repo_name", "git_branch", "git_commit"}
Probed == pc \notin {"count", "git"}

\* C7: with --no-git, or when root discovery fails or yields nothing, the
\* branch and commit queries are never issued, the probe does not end the
\* run, and the header has none of the four repository lines; a repo_name,
\* git_branch or git_commit line is printed only after a repo_root line, and
\* no repository line is printed with an empty value.
C7_ProbeTolerant ==
  /\ no_git => events = FileEvents
  /\ Probed /\ Len(files) <= max_files /\ ~Truthy(repo_root) =>
       /\ \A n \in DOMAIN events :
            events[n].op = "git" => events[n].arg = ShowToplevel
       /\ \A n \in DOMAIN stdout : stdout[n].k \notin GitLines
       /\ ~Truthy(repo_name) /\ ~Truthy(branch) /\ ~Truthy(commit)
  /\ pc \in {"git", "head"} => returned = <<>> /\ stderr = <<>>
  /\ pc = "done" /\ Len(files) <= max_files => FileEvents # <<>>
  /\ \A n \in DOMAIN stdout :
       stdout[n].k \in GitLines =>
         /\ stdout[n].s # <<>>
         /\ stdout[n].k # "repo_root" =>
              \E m \in 1..(n - 1) : stdout[m].k = "repo_root"

\* A successful run in which git answered the root query with nothing
C7_Witness ==
  /\ Exited(0) /\ ~no_git
  /\ repo_root.some /\ repo_root.v = <<>>
  /\ Len(GitEvents) = 1

----------------------------------------------------------------------------
(* C9 *)

\* The external file calls of the first n loop iterations, all completed
RECURSIVE Loaded(_)
Loaded(n) ==
  IF n = 0 THEN <<>>
  ELSE Loaded(n - 1)
       \o <<StatEvent(ResolveArg(files[n], repo_root)),
            ReadEvent(ResolveArg(files[n], repo_root))>>

Looked(n) == <<StatEvent(ResolveArg(files[n], repo_root))>>

\* C9: files are loaded one by one in input order, each looked up before it
\* is read and counted in the running total only after it is read; after a
\* file fails the lookup or the budget, no later file is looked up or read.
C9_FileByFile ==
  /\ pc \in {"count", "git", "head"} => FileEvents = <<>>
  /\ pc = "load" => FileEvents = Loaded(idx - 1)
  /\ pc = "read" =>
       /\ FileEvents = Loaded(idx - 1) \o Looked(idx)
       /\ total_bytes = SumTo(idx - 1)
  /\ pc = "account" =>
       /\ FileEvents = Loaded(idx)
       /\ total_bytes = SumTo(idx - 1)
  /\ Emitting \/ Exited(0) => FileEvents = Loaded(Len(files))
  /\ Exited(2) /\ SaidTooMany => FileEvents = <<>>
  /\ Exited(2) /\ SaidNotAFile => FileEvents = Loaded(idx - 1) \o Looked(idx)
  /\ Exited(2) /\ SaidTooLarge =>
       /\ FileEvents = Loaded(idx)
       /\ total_bytes = SumTo(idx)

\* The first of two arguments is missing; the second, a regular file at
\* another place, is never touched
C9_Witness ==
  /\ Exited(2) /\ SaidNotAFile
  /\ idx = 1 /\ Len(files) = 2
  /\ ~IsBad(2)
  /\ Len(FileEvents) = 1

----------------------------------------------------------------------------
(* C10 *)

\* Steps main() is from its return, at most
Measure ==
  CASE pc = "count" -> 3 * Len(files) + Len(files) + 6
    [] pc = "git" -> 3 * Len(files) + Len(files) + 5
    [] pc = "head" -> 3 * Len(files) + Len(files) + 4
    [] pc = "load" -> 3 * (Len(files) - idx) + Len(files) + 6
    [] pc = "read" -> 3 * (Len(files) - idx) + Len(files) + 5
    [] pc = "account" -> 3 * (Len(files) - idx) + Len(files) + 4
    [] pc = "emit" -> Len(files) + 3
    [] pc = "file" -> (Len(files) - idx) + 2
    [] pc = "close" -> 1
    [] pc = "done" -> 0

C10_ExitCode ==
  /\ returned \in {<<>>, <<0>>, <<2>>}
  /\ returned # <<>> <=> pc = "done"
  /\ pc = "done" =>
       (returned = <<0>> <=>
          /\ Len(files) <= max_files
          /\ \A j \in DOMAIN files : Target(j).kind = "file"
          /\ SumTo(Len(files)) <= max_bytes)
  /\ pc \notin {"done", "read"} => ENABLED Next
  /\ Measure >= 0

====
